---- MODULE Spec2Model ----
(***************************************************************************)
(* Model of scouting_reports_scrape.py: get_scouting_report (position      *)
(* detection, percentile-table extraction, statistic merge) and the        *)
(* __main__ loop that assembles the reports dict and dumps it to a file.   *)
(*                                                                         *)
(* The model starts at the values the libraries hand to the code: the      *)
(* response of requests.get and the list of DataFrames pd.read_html makes  *)
(* of it. The columns of a DataFrame are of object dtype, every cell a     *)
(* Python str or NaN, as on the scouting pages, whose tables repeat their  *)
(* header row inside the body (which keeps read_html from inferring a      *)
(* numeric column).                                                        *)
(***************************************************************************)
EXTENDS Integers, Sequences, FiniteSets, TLC

VARIABLES
    reports,   \* the dict built by __main__ (line 103): id -> player record
    outfile,   \* content of scouting_reports.json, NotWritten until line 124
    pc,        \* position of __main__ / of a single get_scouting_report call
    n,         \* number of df.index entries the loop has consumed
    row,       \* the df row of the current loop iteration (df.loc[idx, ...])
    page,      \* the document the current get_scouting_report call fetched
    r,         \* what the last get_scouting_report call returned or raised
    exc,       \* the exception the last call / loop iteration ended with, or "none"
    seen,      \* history: how many tables the last fetched document held
    okIds      \* history: ids of the players whose record was inserted

vars == <<reports, outfile, pc, n, row, page, r, exc, seen, okIds>>

\* Bounds of the model: tables of a document, table rows of a document (over
\* all its tables), rows of the player index.
MaxTables == 2
MaxRows == 3
MaxPlayers == 2

------------------------------------------------------------------------------
\* Python values: a str cell and the float NaN of an empty cell.
Str(s) == [type |-> "str", v |-> s]
NaN == [type |-> "nan", v |-> <<>>]

\* line 57
pos_list == <<"GK", "CB", "FB", "MF", "AM", "FW">>

\* The Per 90 cells and Percentile cells a table row may hold. A Percentile
\* cell is kept as its sequence of characters.
Per90Cells == {Str("0.5")}
PercentileCells == {Str(<<"8", "0">>), Str(<<"2", "5", "0">>), Str(<<"-">>), NaN}

\* The table rows of the model: a Goals row with any Percentile cell, an
\* Assists row and a Passes Blocked row with a ranked Percentile.
Rows ==
    [Statistic : {Str("Goals")}, Per90 : Per90Cells, Percentile : PercentileCells]
        \cup [Statistic : {Str("Assists"), Str("Passes Blocked")}, Per90 : Per90Cells,
              Percentile : {Str(<<"8", "0">>)}]

\* The DataFrames pd.read_html can return: a table with a one-level header
\* ("flat"), a table with a two-level header whose leaves are
\* Statistic / Per 90 / Percentile ("scout"), or a table with a two-level
\* header and other leaves ("grouped"), whose rows the code never reaches.
Headers == {"flat", "grouped", "scout"}

RECURSIVE RowsBefore(_, _)
RowsBefore(sh, i) == IF i <= 1 THEN 0 ELSE RowsBefore(sh, i - 1) + sh[i - 1].rows

\* The shapes of a document: the header and the number of rows of each of
\* its tables, at most MaxTables tables and MaxRows rows in all.
Shapes ==
    UNION {{sh \in [1..k -> [header : Headers, rows : 0..MaxRows]] :
               /\ \A i \in 1..k : sh[i].header # "scout" => sh[i].rows = 0
               /\ RowsBefore(sh, k + 1) <= MaxRows} : k \in 0..MaxTables}

\* The tables of shape sh whose rows, one table after the other, are rs.
Tables(sh, rs) ==
    [i \in 1..Len(sh) |->
        [header |-> sh[i].header,
         rows |-> SubSeq(rs, RowsBefore(sh, i) + 1, RowsBefore(sh, i) + sh[i].rows)]]

\* The divs with id div_scout_full_<p> a document may hold.
DocDivs == {"AM", "FW"}

\* requests.get (line 56) failing to connect.
NoResponse == [error |-> "ConnectionError"]
IsPage(resp) == "error" \notin DOMAIN resp

\* The documents requests.get may return, as far as the code reads them.
PagesOf(sh) ==
    {[divs |-> d, tables |-> Tables(sh, rs)] :
        d \in SUBSET DocDivs, rs \in [1..RowsBefore(sh, Len(sh) + 1) -> Rows]}

------------------------------------------------------------------------------
\* Exceptions and results.
Raise(e) == [kind |-> "raise", exc |-> e]
IsRaise(x) == x.kind = "raise"

Digits == {"0", "1", "2", "3", "4", "5", "6", "7", "8", "9"}

\* str.isdigit (line 68): a non-empty string of digit characters.
isdigit(c) ==
    /\ c.type = "str"
    /\ Len(c.v) > 0
    /\ \A i \in 1..Len(c.v) : c.v[i] \in Digits

\* line 59: the positions of pos_list whose div the document holds, in
\* pos_list order.
detect_pos(doc) == SelectSeq(pos_list, LAMBDA p : p \in doc.divs)

\* line 61: pd.read_html raises ValueError("No tables found") on a document
\* without tables.
read_html(doc) ==
    IF doc.tables = <<>> THEN Raise("ValueError")
    ELSE [kind |-> "ok", dfs |-> doc.tables]

\* line 66: DataFrame.drop_duplicates keeps the first of each run of equal rows.
RECURSIVE drop_duplicates(_)
drop_duplicates(rows) ==
    IF rows = <<>> THEN <<>>
    ELSE LET init == drop_duplicates(SubSeq(rows, 1, Len(rows) - 1))
             last == rows[Len(rows)]
         IN  IF \E i \in 1..Len(init) : init[i] = last THEN init
             ELSE Append(init, last)

\* line 66: DataFrame.dropna drops the rows with a missing cell.
dropna(rows) ==
    SelectSeq(rows, LAMBDA w : w.Statistic # NaN /\ w.Per90 # NaN /\ w.Percentile # NaN)

\* A filter that forgets the 'Passes Blocked' exclusion of line 68.
filter_rows_digits_only(rows) == SelectSeq(rows, LAMBDA w : isdigit(w.Percentile))

\* line 68: rows whose Percentile is a digit string and whose index is not
\* 'Passes Blocked'.
filter_rows(rows) ==
    SelectSeq(rows, LAMBDA w : isdigit(w.Percentile) /\ w.Statistic.v # "Passes Blocked")

\* line 70: df.T.to_json(). orient='columns' needs unique column labels and
\* raises ValueError otherwise. The JSON text is modelled by the ordered
\* object it denotes: one member per statistic, its value the object of the
\* remaining columns, with each str cell a JSON string.
to_json(rows) ==
    IF \E i, j \in 1..Len(rows) : i # j /\ rows[i].Statistic = rows[j].Statistic
    THEN Raise("ValueError")
    ELSE [kind |-> "ok",
          json |-> [i \in 1..Len(rows) |->
                       [key |-> rows[i].Statistic.v,
                        value |-> [Per90 |-> rows[i].Per90,
                                   Percentile |-> rows[i].Percentile]]]]

\* lines 65-70 for one two-level-header DataFrame.
percentile_json(df) ==
    IF df.header = "grouped" THEN Raise("KeyError")   \* set_index('Statistic')
    ELSE to_json(filter_rows(dropna(drop_duplicates(df.rows))))

\* lines 62-71: the loop over dfs; the first exception ends it.
RECURSIVE extract(_, _)
extract(dfs, percentile_dfs) ==
    IF dfs = <<>> THEN [kind |-> "ok", percentile_dfs |-> percentile_dfs]
    ELSE IF Head(dfs).header = "flat" THEN extract(Tail(dfs), percentile_dfs)
    ELSE LET j == percentile_json(Head(dfs))
         IN  IF IsRaise(j) THEN j
             ELSE extract(Tail(dfs), Append(percentile_dfs, j.json))

\* json.loads of a table's JSON text: a dict, here its keys in order and the
\* value of a key.
json_keys(js) == [i \in 1..Len(js) |-> js[i].key]
json_has(js, k) == \E i \in 1..Len(js) : js[i].key = k
json_get(js, k) == js[CHOOSE i \in 1..Len(js) : js[i].key = k].value

\* A merge that takes its statistics from the last table, not the first.
canonical_table_last(percentile_dfs) == percentile_dfs[Len(percentile_dfs)]

\* line 74: percentile_dfs[0], the table whose statistics are iterated and
\* whose fields are copied (line 75).
canonical_table(percentile_dfs) == percentile_dfs[1]

\* d[k] = v on a dict (lines 75, 78)
dict_set(d, k, v) == (k :> v) @@ d

\* lines 76-78 for one statistic: the loop over enumerate(pos). The right-hand
\* side of line 78 is evaluated first: percentile_dfs[i] (IndexError), then
\* [stat] (KeyError).
RECURSIVE fill_percentile(_, _, _, _, _)
fill_percentile(percentile_dfs, pos, stat, i, pct) ==
    IF i > Len(pos) THEN [kind |-> "ok", pct |-> pct]
    ELSE IF i > Len(percentile_dfs) THEN Raise("IndexError")
    ELSE IF ~json_has(percentile_dfs[i], stat) THEN Raise("KeyError")
    ELSE fill_percentile(percentile_dfs, pos, stat, i + 1,
            dict_set(pct, pos[i], json_get(percentile_dfs[i], stat).Percentile))

\* lines 73-78: the loop over the statistics of percentile_dfs[0].
RECURSIVE merge(_, _, _, _)
merge(percentile_dfs, pos, stats, data) ==
    IF stats = <<>> THEN [kind |-> "ok", data |-> data]
    ELSE LET stat == Head(stats)
             e == fill_percentile(percentile_dfs, pos, stat, 1, <<>>)
         IN  IF IsRaise(e) THEN e
             ELSE merge(percentile_dfs, pos, Tail(stats),
                     dict_set(data, stat,
                         [Per90 |-> json_get(canonical_table(percentile_dfs), stat).Per90,
                          Percentile |-> e.pct]))

\* lines 55-78: the positions and the merged data of a document, or the
\* exception raised on the way. doc is what requests.get made of the url
\* (line 56).
scouting_data(doc) ==
    LET pos == detect_pos(doc)
        dfs == read_html(doc)
    IN  IF ~IsPage(doc) THEN Raise(doc.error)
        ELSE IF IsRaise(dfs) THEN dfs
        ELSE LET x == extract(dfs.dfs, <<>>)
             IN  IF IsRaise(x) THEN x
                 ELSE IF x.percentile_dfs = <<>> THEN Raise("IndexError")   \* line 74
                 ELSE LET m == merge(x.percentile_dfs, pos,
                                     json_keys(canonical_table(x.percentile_dfs)), <<>>)
                      IN  IF IsRaise(m) THEN m
                          ELSE [kind |-> "ok", data |-> m.data, positions |-> pos]

\* lines 79-83: the returned dict.
report(idx, d) ==
    IF IsRaise(d) THEN d
    ELSE [kind |-> "return", data |-> d.data, positions |-> d.positions, id |-> idx]

\* lines 48-83
get_scouting_report(idx, doc) == report(idx, scouting_data(doc))

------------------------------------------------------------------------------
\* The rows of the player index df (lines 96-101) the loop may meet. href is
\* kept as its '/'-separated parts, Nation and Comp as their ' '-separated
\* parts; a missing Nation cell is NaN.
Ids == {"e46012d4", "dea698d9"}
NationCells == {Str(<<"be", "BEL">>), NaN}

MetaRows ==
    [href : {<<"", "en", "players", i, "Player-Name">> : i \in Ids},
     Player : {Str("Player Name")},
     Min : {Str("2700")},
     Squad : {Str("Squad")},
     Nation : NationCells,
     Comp : {Str(<<"eng", "Premier", "League">>)},
     Age : {Str("29")}]

\* href.split('/')[-2:] (line 107)
last_two(parts) == SubSeq(parts, Len(parts) - 1, Len(parts))

NoPage == [divs |-> {}, tables |-> <<>>]
NoRow == [href |-> <<>>]
NoResult == [kind |-> "none"]
NotWritten == [written |-> FALSE]

------------------------------------------------------------------------------
\* What the histories record of a fetch: whether a document came back, its
\* tables, and those with a two-level header (the ones line 64 lets through).
NoSummary == [fetched |-> FALSE, tables |-> 0, twolevel |-> 0]

Summary(doc) ==
    IF ~IsPage(doc) THEN NoSummary
    ELSE [fetched |-> TRUE,
          tables |-> Len(doc.tables),
          twolevel |-> Cardinality({i \in 1..Len(doc.tables) :
                                       doc.tables[i].header # "flat"})]

\* One call of get_scouting_report on an arbitrary document.
InitReport ==
    /\ reports = <<>>
    /\ outfile = NotWritten
    /\ pc = "call"
    /\ n = 0
    /\ row \in {w \in MetaRows : w.Nation # NaN}
    /\ \/ \E sh \in Shapes : page \in PagesOf(sh)
       \/ page = NoResponse
    /\ r = NoResult
    /\ exc = "none"
    /\ seen = NoSummary
    /\ okIds = {}

CallReport ==
    /\ pc = "call"
    /\ LET res == get_scouting_report(last_two(row.href)[1], page)
       IN  /\ r' = IF IsRaise(res) THEN r ELSE res
           /\ exc' = IF IsRaise(res) THEN res.exc ELSE "none"
    /\ seen' = Summary(page)
    /\ pc' = "returned"
    /\ UNCHANGED <<reports, outfile, n, row, page, okIds>>

NextReport == CallReport

SpecReport == InitReport /\ [][NextReport]_vars

------------------------------------------------------------------------------
\* lines 109-119: the record __main__ stores. Nation.split(' ')[-1] and
\* Comp.split(' ')[1:] need a str; a NaN cell has no split (AttributeError).
player_record(w, rep) ==
    IF w.Nation.type # "str" \/ w.Comp.type # "str" THEN Raise("AttributeError")
    ELSE [kind |-> "ok",
          record |-> [name |-> w.Player,
                      positions |-> rep.positions,
                      mins |-> w.Min,
                      team |-> w.Squad,
                      nation |-> Str(<<w.Nation.v[Len(w.Nation.v)]>>),
                      league |-> Str(Tail(w.Comp.v)),
                      age |-> w.Age,
                      profile |-> Str(<<"https://fbref.com">> \o w.href),
                      data |-> rep.data]]

\* An insertion that rebinds reports to a dict of the new record alone.
store_report_alone(d, k, v) == (k :> v)

\* line 109: reports[r['id']] = {...}
store_report(d, k, v) == (k :> v) @@ d

\* What the fetch of a scouting page can lead to: the summary of the document
\* requests.get returned and what lines 55-78 make of it (neither depends on
\* the player).
Fetches ==
    UNION {{[seen |-> Summary(doc), data |-> scouting_data(doc)] :
               doc \in PagesOf(sh) \cup {NoResponse}} : sh \in Shapes}

Init ==
    /\ reports = <<>>            \* line 103
    /\ outfile = NotWritten
    /\ pc = "loop"
    /\ n = 0
    /\ row = NoRow
    /\ page = NoPage
    /\ r = NoResult
    /\ exc = "none"
    /\ seen = NoSummary
    /\ okIds = {}

\* lines 104-121: one iteration of the loop over df.index, on row w of df:
\* get_scouting_report on the document fetched for w, then the insertion.
\* ValueError is caught (line 120); any other exception ends the program.
Iterate(w) ==
    /\ pc = "loop"
    /\ n < MaxPlayers
    /\ \E f \in Fetches :
          LET res == report(last_two(w.href)[1], f.data)
              rec == player_record(w, res)
          IN  /\ seen' = f.seen
              /\ IF IsRaise(res)
                 THEN /\ exc' = res.exc
                      /\ pc' = IF res.exc = "ValueError" THEN "loop" ELSE "aborted"
                      /\ UNCHANGED <<reports, r, okIds>>
                 ELSE /\ r' = res
                      /\ IF IsRaise(rec)
                         THEN /\ exc' = rec.exc
                              /\ pc' = "aborted"
                              /\ UNCHANGED <<reports, okIds>>
                         ELSE /\ reports' = store_report(reports, res.id, rec.record)
                              /\ okIds' = okIds \cup {res.id}
                              /\ exc' = "none"
                              /\ pc' = "loop"
    /\ n' = n + 1
    /\ row' = w
    /\ UNCHANGED <<outfile, page>>

\* lines 123-124: df.index is exhausted; the dict is dumped to the file.
Finish ==
    /\ pc = "loop"
    /\ outfile' = [written |-> TRUE, content |-> reports]
    /\ pc' = "done"
    /\ UNCHANGED <<reports, n, row, page, r, exc, seen, okIds>>

Next ==
    \/ \E w \in MetaRows : Iterate(w)
    \/ Finish

Spec == Init /\ [][Next]_vars

------------------------------------------------------------------------------
\* The claims, stated on the documents themselves.
Range(f) == {f[i] : i \in DOMAIN f}

IsDigitString(c) == c.type = "str" /\ c.v # <<>> /\ Range(c.v) \subseteq Digits

\* The rows of a table that stand for a ranked statistic.
RankedRows(t) ==
    {w \in Range(t.rows) :
        /\ w.Statistic # NaN /\ w.Per90 # NaN /\ w.Percentile # NaN
        /\ IsDigitString(w.Percentile)
        /\ w.Statistic.v # "Passes Blocked"}

StatsOf(t) == {w.Statistic.v : w \in RankedRows(t)}
PercentileOf(t, S) == (CHOOSE w \in RankedRows(t) : w.Statistic.v = S).Percentile

\* The position tables of a document: its tables with a two-level header, in
\* document order.
PositionTables(doc) == SelectSeq(doc.tables, LAMBDA t : t.header # "flat")

\* The detected positions, in canonical order.
PositionsOf(doc) == SelectSeq(pos_list, LAMBDA p : p \in doc.divs)

Returned == pc = "returned" /\ exc = "none" /\ r.kind = "return"

\* A document whose position tables are percentile tables with one row per
\* statistic, as many as there are detected positions.
Aligned(doc) ==
    LET pt == PositionTables(doc)
    IN  /\ IsPage(doc)
        /\ Len(pt) >= 1
        /\ Len(pt) = Len(PositionsOf(doc))
        /\ \A i \in 1..Len(pt) :
              /\ pt[i].header = "scout"
              /\ Cardinality(RankedRows(pt[i])) = Cardinality(StatsOf(pt[i]))

\* C1: on aligned tables the call returns, and for every statistic S of the
\* first position table and every pair (table i, position i) the merged
\* Percentile of S holds table i's percentile under position i if table i
\* has S, and has no key for position i if it has not.
C1_MergeOmitsAbsent ==
    (pc = "returned" /\ IsPage(page) /\ Aligned(page)) =>
        /\ Returned
        /\ LET pt == PositionTables(page)
               pos == PositionsOf(page)
           IN  \A S \in StatsOf(pt[1]) :
                   /\ S \in DOMAIN r.data
                   /\ \A i \in 1..Len(pt) :
                         IF S \in StatsOf(pt[i])
                         THEN /\ pos[i] \in DOMAIN r.data[S].Percentile
                              /\ r.data[S].Percentile[pos[i]] = PercentileOf(pt[i], S)
                         ELSE pos[i] \notin DOMAIN r.data[S].Percentile

\* C2: whenever get_scouting_report returns, the statistics of data are
\* exactly the statistics of the first position table.
C2_SchemaSource ==
    Returned => DOMAIN r.data = StatsOf(PositionTables(page)[1])

\* C2 witness: a call returned although a later table ranks a statistic the
\* first table does not, and the first table ranks one too.
C2_Witness ==
    /\ Returned
    /\ LET pt == PositionTables(page)
       IN  /\ Len(pt) = 2
           /\ StatsOf(pt[1]) # {}
           /\ StatsOf(pt[2]) \ StatsOf(pt[1]) # {}

\* C4: in every returned data, the Percentile of a statistic maps a position
\* to an integer in 0..100 or has no key for it.
C4_PercentileIntegerInRange ==
    Returned =>
        \A S \in DOMAIN r.data : \A p \in Range(r.positions) :
            \/ p \notin DOMAIN r.data[S].Percentile
            \/ /\ r.data[S].Percentile[p].type = "int"
               /\ r.data[S].Percentile[p].v \in 0..100

\* C5: "Passes Blocked" is never a key of a returned data.
C5_PassesBlockedExcluded ==
    Returned => "Passes Blocked" \notin DOMAIN r.data

\* C5 witness: a call returned on a document whose first position table
\* holds a Passes Blocked row with a digit Percentile, beside a ranked row.
C5_Witness ==
    /\ Returned
    /\ DOMAIN r.data # {}
    /\ \E w \in Range(PositionTables(page)[1].rows) :
          w.Statistic.v = "Passes Blocked" /\ IsDigitString(w.Percentile)

\* C7: whenever the detected positions and the position tables differ in
\* number, more positions or more tables, the call ends in a fault and
\* returns no record.
C7_AlignmentFault ==
    (pc = "returned" /\ IsPage(page)
        /\ Len(PositionsOf(page)) # Len(PositionTables(page))) =>
        exc # "none" /\ r = NoResult

\* C3: a player whose document holds no table with a two-level header gets
\* no entry, and the loop goes on to the next player.
C3_SkipRule ==
    [][(n' = n + 1 /\ seen'.fetched /\ seen'.twolevel = 0)
           => (reports' = reports /\ pc' = "loop")]_vars

\* A fetched document without position tables: the InsufficientData case.
InsufficientData == seen.fetched /\ seen.twolevel = 0

\* C6: the file is written only by a run that went through every player, and
\* then holds the entries of the players that succeeded; a run is aborted
\* only by a failure that is not InsufficientData, and the file stays
\* unwritten then; only InsufficientData is skipped.
C6_RunOutcome ==
    /\ pc = "done" =>
          outfile = [written |-> TRUE, content |-> reports] /\ DOMAIN reports = okIds
    /\ pc # "done" => outfile = NotWritten
    /\ pc = "aborted" => ~InsufficientData
    /\ (n > 0 /\ pc = "loop" /\ exc = "ValueError") => InsufficientData

\* C8: every record of the Dataset has a non-empty positions list.
C8_PositionsNonEmpty ==
    \A k \in DOMAIN reports : reports[k].positions # <<>>

\* C10: an iteration of the loop leaves the entries under other identifiers
\* as they were; a success adds the entry of its player, a skip changes
\* nothing.
C10_AppendOnly ==
    [][n' = n + 1 =>
         LET id == last_two(row'.href)[1]
         IN  /\ \A k \in DOMAIN reports :
                   k # id => k \in DOMAIN reports' /\ reports'[k] = reports[k]
             /\ (pc' = "loop" /\ exc' = "none") =>
                   /\ DOMAIN reports' = DOMAIN reports \cup {id}
                   /\ reports'[id].data = r'.data
             /\ (pc' = "loop" /\ exc' = "ValueError") => reports' = reports
             /\ pc' = "aborted" => reports' = reports]_vars

\* C10 witness: the second player, of another identifier, was inserted.
C10_Witness ==
    n = 2 /\ exc = "none" /\ pc = "loop" /\ Cardinality(DOMAIN reports) = 2

====
